---- MODULE Spec2Model ----
(***************************************************************************)
(* Persistence and authorization layer of the Intelligence Platform        *)
(* (src/database/db_manager.py, src/auth/authentication.py, src/main.py,   *)
(* src/config.py, src/dashboards, src/utils/data_import.py).               *)
(*                                                                         *)
(* The specifications share the variables:                                 *)
(*   Spec           the record store: every DatabaseManager operation on   *)
(*                  the three record tables is one action, called with     *)
(*                  inputs from small sets, against a store clock that     *)
(*                  advances;                                              *)
(*   SpecIncidents, SpecTickets, SpecDatasets                              *)
(*                  the actions of Spec on one of the three tables;        *)
(*   SpecRecords    creating, deleting and reading the rows of the three   *)
(*                  tables, with more rows and no update;                  *)
(*   SpecAuth       the users table, the login/registration page and the   *)
(*                  dashboard dispatch of one browser session;             *)
(*   SpecHash       hash_password, verify_password and login_user on the   *)
(*                  hashes produced;                                       *)
(*   SpecAssistant  the store calls of the AI assistant;                   *)
(*   SpecImport     the CSV import of cyber incidents;                     *)
(*   SpecDashboards one logged-in session using the widgets of the page    *)
(*                  it is shown;                                           *)
(*   SpecSeeding, SpecRegistering                                          *)
(*                  init_database and register_user run by two processes   *)
(*                  at once, statement by statement.                       *)
(*                                                                         *)
(* Time is counted in whole hours.  An SQL value is a record               *)
(* [k |-> kind, v |-> number]: NULL, a timestamp text SQLite can parse,    *)
(* a text it cannot parse, or a REAL.                                      *)
(***************************************************************************)
EXTENDS Integers, FiniteSets, Sequences, TLC

VARIABLES users, session, incidents, tickets, datasets, seq, clock, last, procs

vars == <<users, session, incidents, tickets, datasets, seq, clock, last, procs>>

storeVars == <<incidents, tickets, datasets, seq, clock, procs>>

authVars == <<users, session>>

----------------------------------------------------------------------------
(* Bounds *)

MaxClock == 1

MaxRows == 1

NumSalts == 1

(* Rows created in the specification without updates (SpecRecords).      *)
MaxRecords == 2

(* Calls of hash_password in the specification of the credential          *)
(* functions (SpecHash).                                                   *)
MaxHashes == 2

----------------------------------------------------------------------------
(* SQL values *)

NULL == [k |-> "null", v |-> 0]

Ts(t) == [k |-> "ts", v |-> t]

BadText == [k |-> "text", v |-> 0]

Real(x) == [k |-> "real", v |-> x]

(* julianday(x) * 24: the hour number of a timestamp, NULL for NULL and   *)
(* for a text that is not a date SQLite recognises.                       *)
julianday(x) == IF x.k = "ts" THEN Real(x.v) ELSE NULL

(* (julianday(a) - julianday(b)) * 24; NULL when either side is NULL.     *)
hours_between(a, b) ==
    IF julianday(a) = NULL \/ julianday(b) = NULL
    THEN NULL
    ELSE Real(julianday(a).v - julianday(b).v)

CURRENT_TIMESTAMP == Ts(clock)

PyBool(b) == IF b THEN "True" ELSE "False"

(* Python's None where a row is expected; a row is a one-element sequence. *)
NoRow == <<>>

----------------------------------------------------------------------------
(* config.py: the enumerations the forms offer *)

INCIDENT_STATUSES == {"Open", "In Progress", "Resolved"}

TICKET_STATUSES == {"Open", "In Progress", "Resolved", "Closed"}

TICKET_STAGES == {"New", "Triaged", "In Progress", "Pending Review", "Resolved"}

----------------------------------------------------------------------------
(* Inputs of the store operations *)

(* Ids a caller passes: the ids AUTOINCREMENT can have handed out within  *)
(* the bound, and one more that no row ever has.                          *)
IdInputs == 1 .. (MaxRows + 1)

(* The data dicts create_cyber_incident is called with: the add form      *)
(* (created_at = datetime.now().isoformat(): the store clock when the     *)
(* host runs on UTC, ahead of it when the host's local time is; any       *)
(* status, no resolution fields), the sample data (a Resolved incident    *)
(* with resolved_at and resolution_time_hours given) and CSV import       *)
(* (created_at a cell that is no ISO date, or an empty cell: NaN, bound   *)
(* as NULL).                                                              *)
Incident(status, created_at, resolved_at, resolution_time_hours) ==
    [status |-> status, created_at |-> created_at, resolved_at |-> resolved_at,
     resolution_time_hours |-> resolution_time_hours]

IncidentInputs ==
    {Incident("Open", Ts(clock), NULL, NULL),
     Incident("Open", Ts(clock + 1), NULL, NULL),
     Incident("Resolved", Ts(clock), NULL, NULL),
     Incident("Resolved", Ts(clock), Ts(clock), Real(24)),
     Incident("Open", BadText, NULL, NULL),
     Incident("Open", NULL, NULL, NULL)}

(* The statuses the incident buttons pass to update_incident_status.      *)
IncidentUpdateInputs == {"In Progress", "Resolved"}

TicketInputs ==
    {[status |-> "Open", current_stage |-> "New", created_at |-> c, resolved_at |-> NULL] :
        c \in {Ts(clock), Ts(clock + 1), NULL}}

(* QUALITY_SCORE_RANGE = (1, 10): the ends of the quality sliders.         *)
QUALITY_SCORE_RANGE == <<1, 10>>

(* An empty CSV cell as pandas reads it.                                  *)
NaN == [k |-> "nan", v |-> 0]

(* The quality_score cells of the rows of an uploaded datasets CSV: empty, *)
(* below, inside and above the range, and a text that is no number.       *)
CsvQualityCells == {NaN, Real(0 - 1), Real(0), Real(11), BadText}

(* validate_dataset_row without the range test.                           *)
validate_dataset_row_any_number(row) ==
    IF row.quality_score = NaN THEN TRUE
    ELSE row.quality_score.k = "real"

(* validate_dataset_row, the quality_score part: an empty cell passes, a  *)
(* number passes when 0 <= score <= 10, a text float() rejects fails.     *)
validate_dataset_row(row) ==
    IF row.quality_score = NaN THEN TRUE
    ELSE IF row.quality_score.k # "real" THEN FALSE
    ELSE ~(row.quality_score.v < 0 \/ row.quality_score.v > 10)

(* prepare_dataset_data for a CSV without last_accessed and created_at    *)
(* columns: last_accessed None, created_at datetime.now().isoformat().    *)
prepare_dataset_data(row, now) ==
    [quality_score |-> IF row.quality_score = NaN THEN NULL ELSE row.quality_score,
     last_accessed |-> NULL,
     created_at |-> now]

(* The data dicts create_dataset is called with: the add form (the slider *)
(* value, no created_at and no last_accessed key: data.get binds NULL for *)
(* both), the sample data (quality_score and created_at given) and the    *)
(* rows of a CSV that parse_csv_file let through.                         *)
DatasetInputs ==
    {[quality_score |-> Real(7), last_accessed |-> NULL, created_at |-> NULL],
     [quality_score |-> Real(8), last_accessed |-> NULL, created_at |-> Ts(clock)]}
    \cup {prepare_dataset_data(row, Ts(clock)) :
            row \in {r \in {[quality_score |-> c] : c \in CsvQualityCells} :
                        validate_dataset_row(r)}}

(* (status, current_stage) pairs passed to update_ticket_status: the      *)
(* three the ticket buttons pass, and one where the two differ.           *)
TicketUpdateInputs ==
    {<<"In Progress", "In Progress">>, <<"Resolved", "Resolved">>,
     <<"Closed", "Closed">>, <<"Open", "Triaged">>}

(* The value the update-quality slider passes to update_dataset_quality.  *)
QualityInputs == {Real(QUALITY_SCORE_RANGE[2])}

----------------------------------------------------------------------------
(* The SQL statements of DatabaseManager, as functions of the table *)

(* insert_row that writes the row under the last id handed out.          *)
insert_row_at_last(tbl, lastid, row) ==
    [i \in DOMAIN tbl \cup {lastid} |-> IF i = lastid THEN row ELSE tbl[i]]

(* INSERT into a table with an INTEGER PRIMARY KEY AUTOINCREMENT: the new *)
(* id is one more than the largest id the table ever handed out.          *)
insert_row(tbl, lastid, row) ==
    [i \in DOMAIN tbl \cup {lastid + 1} |-> IF i = lastid + 1 THEN row ELSE tbl[i]]

(* created_at TIMESTAMP NOT NULL of cyber_incidents and it_tickets.       *)
not_null_ok(row) == row.created_at # NULL

(* update_incident_sql without the "resolution_time_hours IS NULL" guard. *)
update_incident_sql_overwrite(tbl, incident_id, status, now) ==
    [i \in DOMAIN tbl |->
        IF i # incident_id THEN tbl[i]
        ELSE [tbl[i] EXCEPT
                !.status = status,
                !.resolved_at =
                    IF status = "Resolved" THEN now ELSE tbl[i].resolved_at,
                !.resolution_time_hours =
                    IF status = "Resolved"
                    THEN hours_between(now, tbl[i].created_at)
                    ELSE tbl[i].resolution_time_hours]]

(* update_incident_sql with the operands of the subtraction swapped.      *)
update_incident_sql_swapped(tbl, incident_id, status, now) ==
    [i \in DOMAIN tbl |->
        IF i # incident_id THEN tbl[i]
        ELSE [tbl[i] EXCEPT
                !.status = status,
                !.resolved_at =
                    IF status = "Resolved" THEN now ELSE tbl[i].resolved_at,
                !.resolution_time_hours =
                    IF status = "Resolved" /\ tbl[i].resolution_time_hours = NULL
                    THEN hours_between(tbl[i].created_at, now)
                    ELSE tbl[i].resolution_time_hours]]

(* UPDATE cyber_incidents SET status, resolved_at, resolution_time_hours  *)
(* WHERE id = ?                                                           *)
update_incident_sql(tbl, incident_id, status, now) ==
    [i \in DOMAIN tbl |->
        IF i # incident_id THEN tbl[i]
        ELSE [tbl[i] EXCEPT
                !.status = status,
                !.resolved_at =
                    IF status = "Resolved" THEN now ELSE tbl[i].resolved_at,
                !.resolution_time_hours =
                    IF status = "Resolved" /\ tbl[i].resolution_time_hours = NULL
                    THEN hours_between(now, tbl[i].created_at)
                    ELSE tbl[i].resolution_time_hours]]

(* update_ticket_sql that sets status and resolved_at and leaves the      *)
(* stage for a second statement that is never reached.                    *)
update_ticket_sql_status_only(tbl, ticket_id, status, current_stage, now) ==
    [i \in DOMAIN tbl |->
        IF i # ticket_id THEN tbl[i]
        ELSE [tbl[i] EXCEPT
                !.status = status,
                !.resolved_at =
                    IF status = "Resolved" \/ status = "Closed"
                    THEN now ELSE tbl[i].resolved_at]]

(* UPDATE it_tickets SET status, current_stage, resolved_at WHERE id = ?  *)
update_ticket_sql(tbl, ticket_id, status, current_stage, now) ==
    [i \in DOMAIN tbl |->
        IF i # ticket_id THEN tbl[i]
        ELSE [tbl[i] EXCEPT
                !.status = status,
                !.current_stage = current_stage,
                !.resolved_at =
                    IF status = "Resolved" \/ status = "Closed"
                    THEN now ELSE tbl[i].resolved_at]]

update_quality_sql(tbl, dataset_id, quality_score, now) ==
    [i \in DOMAIN tbl |->
        IF i # dataset_id THEN tbl[i]
        ELSE [tbl[i] EXCEPT !.quality_score = quality_score, !.last_accessed = now]]

delete_sql(tbl, id) == [i \in DOMAIN tbl \ {id} |-> tbl[i]]

(* The sequences that list every element of S once.                       *)
Orderings(S) ==
    {s \in [1 .. Cardinality(S) -> S] : \A i, j \in 1 .. Cardinality(S) : i # j => s[i] # s[j]}

(* A SELECT with ORDER BY created_at ASC.                                  *)
desc_ok_ascending(a, b) ==
    IF a = NULL THEN TRUE
    ELSE IF b = NULL THEN FALSE
    ELSE (a.k = "ts" /\ b.k = "ts") => a.v <= b.v

(* ORDER BY created_at DESC may put a before b: NULL sorts below every    *)
(* text, two timestamps of one format compare as their times, and a text  *)
(* that is no timestamp falls wherever its characters put it.             *)
desc_ok(a, b) ==
    IF b = NULL THEN TRUE
    ELSE IF a = NULL THEN FALSE
    ELSE (a.k = "ts" /\ b.k = "ts") => a.v >= b.v

(* SELECT * FROM <table> ORDER BY created_at DESC: the lists of dicts it   *)
(* can return (rows with equal created_at come in either order).          *)
select_order_by_created_at_desc(tbl) ==
    {[k \in DOMAIN s |-> [id |-> s[k], row |-> tbl[s[k]]]] :
        s \in {o \in Orderings(DOMAIN tbl) :
                \A i, j \in DOMAIN o :
                    i < j => desc_ok(tbl[o[i]].created_at, tbl[o[j]].created_at)}}

(* SELECT COUNT of the rows whose status is 'Open'.                       *)
count_open(tbl) == Cardinality({i \in DOMAIN tbl : tbl[i].status = "Open"})

RECURSIVE sum_quality(_, _)
sum_quality(tbl, ids) ==
    IF ids = {} THEN 0
    ELSE LET i == CHOOSE x \in ids : TRUE
         IN  tbl[i].quality_score.v + sum_quality(tbl, ids \ {i})

(* AVG(quality_score): AVG skips NULLs and is NULL when no row has a      *)
(* score; the average is kept as the sum and the number of the scores.    *)
avg_quality(tbl) ==
    LET scored == {i \in DOMAIN tbl : tbl[i].quality_score # NULL}
    IN  IF scored = {} THEN NULL
        ELSE [k |-> "avg", sum |-> sum_quality(tbl, scored), n |-> Cardinality(scored)]

(* SELECT AVG(quality_score) without the COALESCE.                        *)
coalesce_avg_quality_missing(tbl) == avg_quality(tbl)

(* SELECT COALESCE(AVG(quality_score), 0)                                 *)
coalesce_avg_quality(tbl) ==
    IF avg_quality(tbl) = NULL THEN Real(0) ELSE avg_quality(tbl)

(* cursor.rowcount of an UPDATE or DELETE ... WHERE id = ?                *)
rowcount(tbl, id) == IF id \in DOMAIN tbl THEN 1 ELSE 0

(* update_* and delete_*: try: execute, commit, return rowcount > 0;      *)
(* except Exception: print and return False.  raised says whether the     *)
(* statement raised (sqlite3.OperationalError: locked, disk I/O error).   *)
write_result(tbl, id, raised) ==
    IF raised THEN "False" ELSE PyBool(rowcount(tbl, id) > 0)

----------------------------------------------------------------------------
(* Users, credentials and roles *)

KnownRoles == {"admin", "cybersecurity", "data_science", "it_operations"}

DefaultUsernames == {"admin", "cyber", "data", "it"}

(* default_users of init_database: username -> (password, role)          *)
default_users ==
    [u \in DefaultUsernames |->
        CASE u = "admin" -> [password |-> "admin123", role |-> "admin"]
          [] u = "cyber" -> [password |-> "cyber123", role |-> "cybersecurity"]
          [] u = "data"  -> [password |-> "data123",  role |-> "data_science"]
          [] u = "it"    -> [password |-> "it123",    role |-> "it_operations"]]

Salts == 1 .. NumSalts

(* Passwords longer than the 72 bytes bcrypt reads, two of them with the  *)
(* same first 72 bytes.                                                    *)
LongPasswords == {"p72+a", "p72+b"}

(* The part of the password bcrypt hashes: its first 72 bytes.            *)
first72(password) == IF password \in LongPasswords THEN "p72" ELSE password

(* bcrypt.hashpw(password, salt): the encoded string carries the salt and *)
(* the digest of salt and the first 72 bytes of the password.             *)
hashpw(password, salt) == [salt |-> salt, digest |-> <<salt, first72(password)>>]

(* hash_password: salt is what bcrypt.gensalt() returned for this call.   *)
hash_password(password, salt) == hashpw(password, salt)

(* A stored password_hash that is no bcrypt string: no salt to read.      *)
MalformedHash == [salt |-> 0, digest |-> <<>>]

(* bcrypt.checkpw: recompute with the salt embedded in the stored string; *)
(* ValueError ("Invalid salt") for a string that is no bcrypt hash.       *)
checkpw(password, hashed) ==
    IF hashed.salt = 0 THEN "ValueError"
    ELSE PyBool(hashpw(password, hashed.salt) = hashed)

(* verify_password without the try/except.                                *)
verify_password_call_unguarded(password, hashed) ==
    IF checkpw(password, hashed) = "ValueError" THEN "raise"
    ELSE checkpw(password, hashed)

(* The outcome of a call of verify_password: try: return checkpw(...)     *)
(* except Exception: return False.                                        *)
verify_password_call(password, hashed) ==
    IF checkpw(password, hashed) = "ValueError" THEN "False"
    ELSE checkpw(password, hashed)

(* verify_password, as the condition login_user tests.                    *)
verify_password(password, hashed) == verify_password_call(password, hashed) = "True"

UserRow(username, password_hash, role) ==
    [username |-> username, password_hash |-> password_hash, role |-> role]

count_users(tbl, username) == Cardinality({r \in tbl : r.username = username})

(* PRIMARY KEY of users: no two rows with one username.                   *)
UniqueUsernames(tbl) == \A a, b \in tbl : a.username = b.username => a = b

(* init_database seeding with INSERT OR REPLACE instead of the count      *)
(* check: every default user is written again.                            *)
init_database_reseed(tbl, salts) ==
    {r \in tbl : r.username \notin DefaultUsernames}
    \cup {UserRow(u, hashpw(default_users[u].password, 1), default_users[u].role) :
                u \in DefaultUsernames}

(* init_database that drops the users table and seeds it anew.            *)
init_database_recreate(tbl, salts) ==
    {UserRow(u, hashpw(default_users[u].password, 1), default_users[u].role) :
                u \in DefaultUsernames}

(* The seeding loop of init_database: each default user is inserted iff   *)
(* the SELECT COUNT for its username is 0.  salts[u] is the gensalt  *)
(* result used for default user u.                                        *)
init_database(tbl, salts) ==
    tbl \cup {UserRow(u, hashpw(default_users[u].password, salts[u]), default_users[u].role) :
                u \in {d \in DefaultUsernames : count_users(tbl, d) = 0}}

(* get_user: the row as a one-element sequence, None as the empty one.    *)
get_user(tbl, username) ==
    IF \E r \in tbl : r.username = username
    THEN <<CHOOSE r \in tbl : r.username = username>>
    ELSE NoRow

(* create_user that returns True whether or not the INSERT went through.  *)
create_user_always_true(tbl, username, password_hash, role) ==
    IF count_users(tbl, username) > 0
    THEN [table |-> tbl, ret |-> "True"]
    ELSE [table |-> tbl \cup {UserRow(username, password_hash, role)}, ret |-> "True"]

(* create_user: INSERT; the PRIMARY KEY on username raises IntegrityError *)
(* for a taken name, which returns False.                                 *)
create_user(tbl, username, password_hash, role) ==
    IF count_users(tbl, username) > 0
    THEN [table |-> tbl, ret |-> "False"]
    ELSE [table |-> tbl \cup {UserRow(username, password_hash, role)}, ret |-> "True"]

(* register_user that overwrites the row of a taken username.            *)
register_user_overwrite(tbl, username, password, role, salt, raised) ==
    IF raised
    THEN [table |-> tbl, ret |-> "False", msgs |-> {"Registration error"}]
    ELSE [table |-> {r \in tbl : r.username # username}
                    \cup {UserRow(username, hash_password(password, salt), role)},
          ret |-> "True", msgs |-> {"Account created"}]

(* register_user.  raised: a store call raised (except Exception).       *)
register_user(tbl, username, password, role, salt, raised) ==
    IF raised
    THEN [table |-> tbl, ret |-> "False", msgs |-> {"Registration error"}]
    ELSE IF get_user(tbl, username) # NoRow
    THEN [table |-> tbl, ret |-> "False", msgs |-> {"Username already exists"}]
    ELSE LET c == create_user(tbl, username, hash_password(password, salt), role)
         IN  [table |-> c.table, ret |-> c.ret,
              msgs |-> IF c.ret = "True" THEN {"Account created"} ELSE {}]

(* login_user that reports an unknown username.                           *)
login_user_leaky(tbl, username, password, raised) ==
    IF raised
    THEN [user |-> NoRow, msgs |-> {"Login error"}]
    ELSE LET user == get_user(tbl, username)
         IN  IF user = NoRow
             THEN [user |-> NoRow, msgs |-> {"Unknown username"}]
             ELSE IF verify_password(password, user[1].password_hash)
             THEN [user |-> user, msgs |-> {}]
             ELSE [user |-> NoRow, msgs |-> {}]

(* login_user: the user row (one-element sequence) or None.               *)
login_user(tbl, username, password, raised) ==
    IF raised
    THEN [user |-> NoRow, msgs |-> {"Login error"}]
    ELSE LET user == get_user(tbl, username)
         IN  IF user # NoRow /\ verify_password(password, user[1].password_hash)
             THEN [user |-> user, msgs |-> {}]
             ELSE [user |-> NoRow, msgs |-> {}]

----------------------------------------------------------------------------
(* Dashboards and permissions *)

DashboardIds == {"executive", "cybersecurity", "data_science", "it_operations", "ai_assistant"}

(* config.DASHBOARD_PERMISSIONS; a role that is no key has no entry.      *)
DASHBOARD_PERMISSIONS(role) ==
    CASE role = "admin" -> {"executive", "cybersecurity", "data_science", "it_operations", "ai_assistant"}
      [] role = "cybersecurity" -> {"executive", "cybersecurity", "ai_assistant"}
      [] role = "data_science" -> {"executive", "data_science", "ai_assistant"}
      [] role = "it_operations" -> {"executive", "it_operations", "ai_assistant"}
      [] OTHER -> {}

(* The navigation entries show_main_application offers to a role.         *)
dashboard_options(role) ==
    {"executive"}
    \cup (IF role = "admin"
          THEN {"cybersecurity", "data_science", "it_operations"}
          ELSE (IF role = "cybersecurity" THEN {"cybersecurity"} ELSE {})
               \cup (IF role = "data_science" THEN {"data_science"} ELSE {})
               \cup (IF role = "it_operations" THEN {"it_operations"} ELSE {}))
    \cup {"ai_assistant"}

(* dispatch that relies on the navigation list: no role check.            *)
dispatch_unchecked(role, selected) ==
    IF selected \in DashboardIds THEN selected ELSE "nothing"

(* dispatch that lets every known role into the three role dashboards.    *)
dispatch_any_known_role(role, selected) ==
    IF selected \in {"cybersecurity", "data_science", "it_operations"}
    THEN (IF role \in KnownRoles THEN selected ELSE "denied")
    ELSE IF selected \in DashboardIds THEN selected ELSE "nothing"

(* The if/elif chain that displays the selected dashboard: the dashboard  *)
(* whose display() runs, or "denied" when the permission error is shown.  *)
dispatch(role, selected) ==
    CASE selected = "executive" -> "executive"
      [] selected = "cybersecurity" ->
            IF role \in {"admin", "cybersecurity"} THEN "cybersecurity" ELSE "denied"
      [] selected = "data_science" ->
            IF role \in {"admin", "data_science"} THEN "data_science" ELSE "denied"
      [] selected = "it_operations" ->
            IF role \in {"admin", "it_operations"} THEN "it_operations" ELSE "denied"
      [] selected = "ai_assistant" -> "ai_assistant"
      [] OTHER -> "nothing"

AllTables == {"users", "cyber_incidents", "datasets_metadata", "it_tickets"}

(* One run of main() for a session state: the page it shows and the      *)
(* tables it reads.  Anonymous: show_login_page and return.  Otherwise    *)
(* show_main_application: get_statistics in the sidebar, then dispatch.   *)
main_page(authenticated, role, selected) ==
    IF ~authenticated
    THEN [page |-> "login", reads |-> {"users"}]
    ELSE [page |-> dispatch(role, selected), reads |-> AllTables]

----------------------------------------------------------------------------
(* State *)

(* What the last operation was, what it was called with (an id, a status *)
(* or username, a password), what it returned and whether a store call in *)
(* it raised.                                                              *)
(* out is the list a read returned; conn is the state, when the operation *)
(* returned or raised, of the connection it opened: the operations with a *)
(* finally clause close it on every path.                                  *)
Last(op, id, arg, pw, ret, raised) ==
    [op |-> op, id |-> id, arg |-> arg, pw |-> pw, ret |-> ret, raised |-> raised,
     out |-> <<>>, conn |-> "closed"]

(* An operation without try/finally that raised before its conn.close().  *)
Raised(op) == [Last(op, 0, "", "", "raise", TRUE) EXCEPT !.conn = "open"]

(* st.session_state before the first run of main() in a browser session,  *)
(* and after show_login_page / logout.                                     *)
NoSession ==
    [started |-> FALSE, authenticated |-> FALSE, user_role |-> "None",
     username |-> "None", nav |-> "None", page |-> "nothing", reads |-> {}, msgs |-> {}]

Anonymous(msgs) ==
    [started |-> TRUE, authenticated |-> FALSE, user_role |-> "None",
     username |-> "None", nav |-> "None", page |-> "login", reads |-> {"users"},
     msgs |-> msgs]

EmptyTable == [i \in {} |-> NULL]

(* The server processes that run main() at the same time, each with its   *)
(* own connection: where it stands in the operation it runs (pc, at), the *)
(* rows it has inserted and not committed, the arguments and the result.  *)
Procs == {1, 2}

Process(pc, at) ==
    [pc |-> pc, at |-> at, pending |-> {}, pw |-> "", role |-> "", ret |-> "None"]

NoProcs == [p \in Procs |-> Process("idle", 0)]

(* The gensalt results the seeding of a fresh database file used.         *)
FirstSalts == [u \in DefaultUsernames |-> 1]

(* The record store right after DatabaseManager() created the database   *)
(* file: the four default users, no records.                              *)
Init ==
    /\ users = init_database({}, FirstSalts)
    /\ session = NoSession
    /\ incidents = EmptyTable
    /\ tickets = EmptyTable
    /\ datasets = EmptyTable
    /\ seq = [cyber_incidents |-> 0, it_tickets |-> 0, datasets_metadata |-> 0]
    /\ clock = 0
    /\ last = Last("init_database", 0, "", "", "None", FALSE)
    /\ procs = NoProcs

----------------------------------------------------------------------------
(* The record store: one action per DatabaseManager operation *)

Created == seq.cyber_incidents + seq.it_tickets + seq.datasets_metadata

(* CURRENT_TIMESTAMP moves on.                                             *)
Tick ==
    /\ clock < MaxClock
    /\ clock' = clock + 1
    /\ last' = Last("tick", 0, "", "", "None", FALSE)
    /\ UNCHANGED <<users, session, procs, incidents, tickets, datasets, seq>>

(* create_cyber_incident: no except clause, an error of the INSERT        *)
(* (NOT NULL on created_at, a storage error) reaches the caller.          *)
create_cyber_incident(data, raised) ==
    IF raised \/ ~not_null_ok(data)
    THEN /\ last' = [Last("create_cyber_incident", 0, "", "", "raise", raised)
                        EXCEPT !.conn = "open"]
         /\ UNCHANGED <<incidents, seq>>
    ELSE /\ incidents' = insert_row(incidents, seq.cyber_incidents, data)
         /\ seq' = [seq EXCEPT !.cyber_incidents = @ + 1]
         /\ last' = Last("create_cyber_incident", seq.cyber_incidents + 1, "", "",
                          "id", raised)

CreateIncident ==
    /\ \E data \in IncidentInputs, raised \in BOOLEAN : create_cyber_incident(data, raised)
    /\ UNCHANGED <<users, session, procs, tickets, datasets, clock>>

create_it_ticket(data, raised) ==
    IF raised \/ ~not_null_ok(data)
    THEN /\ last' = [Last("create_it_ticket", 0, "", "", "raise", raised)
                        EXCEPT !.conn = "open"]
         /\ UNCHANGED <<tickets, seq>>
    ELSE /\ tickets' = insert_row(tickets, seq.it_tickets, data)
         /\ seq' = [seq EXCEPT !.it_tickets = @ + 1]
         /\ last' = Last("create_it_ticket", seq.it_tickets + 1, "", "",
                          "id", raised)

CreateTicket ==
    /\ \E data \in TicketInputs, raised \in BOOLEAN : create_it_ticket(data, raised)
    /\ UNCHANGED <<users, session, procs, incidents, datasets, clock>>

create_dataset(data, raised) ==
    IF raised
    THEN /\ last' = [Last("create_dataset", 0, "", "", "raise", raised)
                        EXCEPT !.conn = "open"]
         /\ UNCHANGED <<datasets, seq>>
    ELSE /\ datasets' = insert_row(datasets, seq.datasets_metadata, data)
         /\ seq' = [seq EXCEPT !.datasets_metadata = @ + 1]
         /\ last' = Last("create_dataset", seq.datasets_metadata + 1, "", "",
                          "id", raised)

CreateDataset ==
    /\ \E data \in DatasetInputs, raised \in BOOLEAN : create_dataset(data, raised)
    /\ UNCHANGED <<users, session, procs, incidents, tickets, clock>>

update_incident_status(incident_id, status, raised) ==
    /\ incidents' = IF raised THEN incidents
                    ELSE update_incident_sql(incidents, incident_id, status, CURRENT_TIMESTAMP)
    /\ last' = Last("update_incident_status", incident_id, "", "",
                     write_result(incidents, incident_id, raised), raised)

UpdateIncidentStatus ==
    /\ \E id \in IdInputs, status \in IncidentUpdateInputs, raised \in BOOLEAN :
            update_incident_status(id, status, raised)
    /\ UNCHANGED <<users, session, procs, tickets, datasets, seq, clock>>

update_ticket_status(ticket_id, status, current_stage, raised) ==
    /\ tickets' = IF raised THEN tickets
                  ELSE update_ticket_sql(tickets, ticket_id, status, current_stage,
                                         CURRENT_TIMESTAMP)
    /\ last' = Last("update_ticket_status", ticket_id, "", "",
                     write_result(tickets, ticket_id, raised), raised)

UpdateTicketStatus ==
    /\ \E id \in IdInputs, in \in TicketUpdateInputs, raised \in BOOLEAN :
            update_ticket_status(id, in[1], in[2], raised)
    /\ UNCHANGED <<users, session, procs, incidents, datasets, seq, clock>>

update_dataset_quality(dataset_id, quality_score, raised) ==
    /\ datasets' = IF raised THEN datasets
                   ELSE update_quality_sql(datasets, dataset_id, quality_score,
                                           CURRENT_TIMESTAMP)
    /\ last' = Last("update_dataset_quality", dataset_id, "", "",
                     write_result(datasets, dataset_id, raised), raised)

UpdateDatasetQuality ==
    /\ \E id \in IdInputs, q \in QualityInputs, raised \in BOOLEAN :
            update_dataset_quality(id, q, raised)
    /\ UNCHANGED <<users, session, procs, incidents, tickets, seq, clock>>

delete_incident(incident_id, raised) ==
    /\ incidents' = IF raised THEN incidents ELSE delete_sql(incidents, incident_id)
    /\ last' = Last("delete_incident", incident_id, "", "",
                     write_result(incidents, incident_id, raised), raised)

DeleteIncident ==
    /\ \E id \in IdInputs, raised \in BOOLEAN : delete_incident(id, raised)
    /\ UNCHANGED <<users, session, procs, tickets, datasets, seq, clock>>

delete_it_ticket(ticket_id, raised) ==
    /\ tickets' = IF raised THEN tickets ELSE delete_sql(tickets, ticket_id)
    /\ last' = Last("delete_it_ticket", ticket_id, "", "",
                     write_result(tickets, ticket_id, raised), raised)

DeleteTicket ==
    /\ \E id \in IdInputs, raised \in BOOLEAN : delete_it_ticket(id, raised)
    /\ UNCHANGED <<users, session, procs, incidents, datasets, seq, clock>>

delete_dataset(dataset_id, raised) ==
    /\ datasets' = IF raised THEN datasets ELSE delete_sql(datasets, dataset_id)
    /\ last' = Last("delete_dataset", dataset_id, "", "",
                     write_result(datasets, dataset_id, raised), raised)

DeleteDataset ==
    /\ \E id \in IdInputs, raised \in BOOLEAN : delete_dataset(id, raised)
    /\ UNCHANGED <<users, session, procs, incidents, tickets, seq, clock>>

(* get_cyber_incidents, get_all_datasets, get_all_it_tickets: no          *)
(* try/finally, an error of the SELECT reaches the caller before          *)
(* conn.close().                                                           *)
get_all(op, tbl, raised) ==
    IF raised
    THEN last' = Raised(op)
    ELSE \E rows \in select_order_by_created_at_desc(tbl) :
            last' = [Last(op, 0, "", "", "list", FALSE) EXCEPT !.out = rows]

GetCyberIncidents ==
    /\ \E raised \in BOOLEAN : get_all("get_cyber_incidents", incidents, raised)
    /\ UNCHANGED <<users, session, procs, incidents, tickets, datasets, seq, clock>>

GetAllDatasets ==
    /\ \E raised \in BOOLEAN : get_all("get_all_datasets", datasets, raised)
    /\ UNCHANGED <<users, session, procs, incidents, tickets, datasets, seq, clock>>

GetAllItTickets ==
    /\ \E raised \in BOOLEAN : get_all("get_all_it_tickets", tickets, raised)
    /\ UNCHANGED <<users, session, procs, incidents, tickets, datasets, seq, clock>>

(* get_statistics: seven SELECTs on one connection, no try/finally.       *)
get_statistics(raised) ==
    IF raised
    THEN last' = Raised("get_statistics")
    ELSE last' = [Last("get_statistics", 0, "", "", "dict", FALSE) EXCEPT !.out =
                    <<[user_count |-> Cardinality(users),
                       total_incidents |-> Cardinality(DOMAIN incidents),
                       open_incidents |-> count_open(incidents),
                       total_datasets |-> Cardinality(DOMAIN datasets),
                       avg_quality |-> coalesce_avg_quality(datasets),
                       total_tickets |-> Cardinality(DOMAIN tickets),
                       open_tickets |-> count_open(tickets)]>>]

GetStatistics ==
    /\ \E raised \in BOOLEAN : get_statistics(raised)
    /\ UNCHANGED <<users, session, procs, incidents, tickets, datasets, seq, clock>>

(* DatabaseManager() of a later run of main(): init_database on the       *)
(* existing file.  CREATE TABLE IF NOT EXISTS leaves the record tables,   *)
(* the seeding finds every default user; an error reaches the caller      *)
(* before conn.commit() and conn.close().                                  *)
InitDatabase ==
    /\ \E raised \in BOOLEAN :
         IF raised
         THEN /\ users' = users
              /\ last' = Raised("init_database")
         ELSE /\ users' = init_database(users, FirstSalts)
              /\ last' = Last("init_database", 0, "", "", "None", FALSE)
    /\ UNCHANGED <<session, procs, incidents, tickets, datasets, seq, clock>>

Next ==
    \/ Tick
    \/ InitDatabase
    \/ (Created < MaxRows /\ CreateIncident)
    \/ (Created < MaxRows /\ CreateTicket)
    \/ (Created < MaxRows /\ CreateDataset)
    \/ UpdateIncidentStatus
    \/ UpdateTicketStatus
    \/ UpdateDatasetQuality
    \/ DeleteIncident
    \/ DeleteTicket
    \/ DeleteDataset
    \/ GetCyberIncidents
    \/ GetAllDatasets
    \/ GetAllItTickets
    \/ GetStatistics

Spec == Init /\ [][Next]_vars

(* The incident operations alone. *)
NextIncidents ==
    \/ Tick
    \/ (Created < MaxRows /\ CreateIncident)
    \/ UpdateIncidentStatus
    \/ DeleteIncident

SpecIncidents == Init /\ [][NextIncidents]_vars

(* The ticket operations alone. *)
NextTickets ==
    \/ Tick
    \/ (Created < MaxRows /\ CreateTicket)
    \/ UpdateTicketStatus
    \/ DeleteTicket
    \/ GetAllItTickets

SpecTickets == Init /\ [][NextTickets]_vars

(* The dataset operations alone. *)
NextDatasets ==
    \/ Tick
    \/ (Created < MaxRecords /\ CreateDataset)
    \/ UpdateDatasetQuality
    \/ DeleteDataset
    \/ GetAllDatasets

SpecDatasets == Init /\ [][NextDatasets]_vars

(* Creating, deleting and reading the rows of the three tables, with no   *)
(* update and the clock standing still.                                   *)
NextRecords ==
    \/ InitDatabase
    \/ (Created < MaxRecords /\ CreateIncident)
    \/ (Created < MaxRecords /\ CreateTicket)
    \/ (Created < MaxRecords /\ CreateDataset)
    \/ DeleteIncident
    \/ DeleteTicket
    \/ DeleteDataset
    \/ GetCyberIncidents
    \/ GetAllDatasets
    \/ GetAllItTickets
    \/ GetStatistics

SpecRecords == Init /\ [][NextRecords]_vars

----------------------------------------------------------------------------
(* The credential functions, applied to passwords and stored hashes *)

HashPasswords == {"pw1", "pw2"} \cup LongPasswords

(* The hashes hash_password returned so far, each with its password: the  *)
(* out field of last.                                                      *)
Produced == {last.out[k] : k \in DOMAIN last.out}

(* hash_password(password): bcrypt.gensalt() draws 16 random bytes, a     *)
(* salt no earlier call drew.  For a password of more than 72 bytes       *)
(* bcrypt 5 raises ValueError, earlier releases hash the first 72 bytes.  *)
HashPassword ==
    /\ Len(last.out) < MaxHashes
    /\ \E password \in HashPasswords, raised \in BOOLEAN,
          salt \in (1 .. MaxHashes) \ {h.hash.salt : h \in Produced} :
         /\ raised => password \in LongPasswords
         /\ last' = [Last("hash_password", 0, "", password,
                           IF raised THEN "raise" ELSE "str", raised)
                        EXCEPT !.out = IF raised THEN last.out
                                       ELSE Append(last.out,
                                                [password |-> password,
                                                 hash |-> hash_password(password, salt)])]
    /\ UNCHANGED <<users, session, procs, incidents, tickets, datasets, seq, clock>>

(* verify_password(password, hashed) for a hash hash_password returned    *)
(* (id is its place in the list) or a malformed one (id 0).               *)
VerifyPassword ==
    /\ \E password \in HashPasswords, k \in {0} \cup DOMAIN last.out :
         LET hashed == IF k = 0 THEN MalformedHash ELSE last.out[k].hash
         IN  last' = [Last("verify_password", k, "", password,
                           verify_password_call(password, hashed), FALSE)
                        EXCEPT !.out = last.out]
    /\ UNCHANGED <<users, session, procs, incidents, tickets, datasets, seq, clock>>

(* login_user(username, password) against a users table whose row for the *)
(* username holds a hash hash_password returned or a malformed one.       *)
LoginStoredHash ==
    /\ \E password \in HashPasswords, k \in {0} \cup DOMAIN last.out :
         LET hashed == IF k = 0 THEN MalformedHash ELSE last.out[k].hash
             found == login_user({UserRow("alice", hashed, "admin")}, "alice", password, FALSE)
         IN  last' = [Last("login_user", k, "alice", password,
                           IF found.user = NoRow THEN "None" ELSE found.user[1].role, FALSE)
                        EXCEPT !.out = last.out]
    /\ UNCHANGED <<users, session, procs, incidents, tickets, datasets, seq, clock>>

NextHash ==
    \/ HashPassword
    \/ VerifyPassword
    \/ LoginStoredHash

SpecHash == Init /\ [][NextHash]_vars

----------------------------------------------------------------------------
(* The AI assistant: the store calls made to answer one message *)

(* Chat messages and quick questions, by the keywords the assistant looks *)
(* for in them.                                                            *)
ChatMessages ==
    {"hello", "security incident", "dataset quality", "ticket", "security dataset",
     "analyse security", "analyse dataset", "analyse ticket", "analyse"}

(* any(word in user_message.lower() ...) for the three keyword lists and  *)
(* the tests of the analyse branch.                                        *)
mentions(message, topic) ==
    CASE topic = "security" ->
            message \in {"security incident", "security dataset", "analyse security"}
      [] topic = "data" ->
            message \in {"dataset quality", "security dataset", "analyse dataset"}
      [] topic = "it" ->
            message \in {"ticket", "analyse ticket", "security incident",
                         "security dataset", "dataset quality"}
      [] topic = "analyse" ->
            message \in {"analyse security", "analyse dataset", "analyse ticket", "analyse"}

(* The effect on the record tables of one DatabaseManager call: the three *)
(* read accessors run a SELECT, a delete removes the row of the id.       *)
call_effect(call, tbls) ==
    CASE call.method = "delete_incident" ->
            [tbls EXCEPT !.incidents = delete_sql(@, call.id)]
      [] call.method = "delete_dataset" ->
            [tbls EXCEPT !.datasets = delete_sql(@, call.id)]
      [] call.method = "delete_it_ticket" ->
            [tbls EXCEPT !.tickets = delete_sql(@, call.id)]
      [] OTHER -> tbls

RECURSIVE calls_effect(_, _)
calls_effect(calls, tbls) ==
    IF calls = <<>> THEN tbls
    ELSE calls_effect(Tail(calls), call_effect(Head(calls), tbls))

Read(method) == [method |-> method, id |-> 0]

(* An assistant that clears the incident it has summarised.               *)
get_ai_response_with_context_purging(message) ==
    IF mentions(message, "security")
    THEN <<Read("get_cyber_incidents"), [method |-> "delete_incident", id |-> 1]>>
    ELSE <<>>

(* _get_ai_response_with_context: the DatabaseManager calls it makes for  *)
(* a message, in order: one for the context (if / elif / elif over the    *)
(* keyword lists), one more in the analyse branch.                        *)
get_ai_response_with_context(message) ==
    (IF mentions(message, "security") THEN <<Read("get_cyber_incidents")>>
     ELSE IF mentions(message, "data") THEN <<Read("get_all_datasets")>>
     ELSE IF mentions(message, "it") THEN <<Read("get_all_it_tickets")>>
     ELSE <<>>)
    \o (IF ~mentions(message, "analyse") THEN <<>>
        ELSE IF mentions(message, "security") THEN <<Read("get_cyber_incidents")>>
        ELSE IF mentions(message, "data") THEN <<Read("get_all_datasets")>>
        ELSE <<>>)

(* A chat message or quick question is answered: main() runs again        *)
(* (init_database on the seeded file), the assistant makes its store      *)
(* calls; a call that raises ends the run.  out lists the calls made.     *)
AskAssistant ==
    /\ \E message \in ChatMessages, raised \in BOOLEAN :
         LET calls == get_ai_response_with_context(message)
             made == IF raised /\ calls # <<>> THEN <<Head(calls)>> ELSE calls
             after == calls_effect(made, [incidents |-> incidents, tickets |-> tickets,
                                          datasets |-> datasets])
         IN  /\ raised => calls # <<>>
             /\ incidents' = after.incidents
             /\ tickets' = after.tickets
             /\ datasets' = after.datasets
             /\ last' = [Last("ai_response", 0, message, "",
                               IF raised THEN "raise" ELSE "str", raised)
                            EXCEPT !.out = made,
                                   !.conn = IF raised THEN "open" ELSE "closed"]
    /\ users' = init_database(users, FirstSalts)
    /\ UNCHANGED <<session, procs, seq, clock>>

(* Records are created by the dashboards, the assistant is asked.         *)
NextAssistant ==
    \/ (Created < MaxRecords /\ CreateIncident)
    \/ (Created < MaxRecords /\ CreateTicket)
    \/ (Created < MaxRecords /\ CreateDataset)
    \/ AskAssistant

SpecAssistant == Init /\ [][NextAssistant]_vars

----------------------------------------------------------------------------
(* CSV import of cyber incidents *)

(* One data row of an uploaded file: the required columns the validation  *)
(* looks at.  An empty cell is "".                                         *)
CsvRow(title, severity, status) ==
    [title |-> title, threat_type |-> "Malware", severity |-> severity, status |-> status]

(* Two rows that pass, and a row with an empty title, one with a severity *)
(* and one with a status outside the enumerations.                         *)
CsvRows ==
    {CsvRow("Phish", "High", "Open"), CsvRow("Phish", "High", "Resolved"),
     CsvRow("", "High", "Open"), CsvRow("Phish", "Urgent", "Open"),
     CsvRow("Phish", "High", "Done")}

(* validate_cyber_incident_row: the required fields in order, then the    *)
(* severity, then the status.                                              *)
validate_cyber_incident_row(row) ==
    IF row.title = ""
    THEN [valid |-> FALSE, error |-> "Missing required field: title"]
    ELSE IF row.threat_type = ""
    THEN [valid |-> FALSE, error |-> "Missing required field: threat_type"]
    ELSE IF row.severity = ""
    THEN [valid |-> FALSE, error |-> "Missing required field: severity"]
    ELSE IF row.status = ""
    THEN [valid |-> FALSE, error |-> "Missing required field: status"]
    ELSE IF row.severity \notin {"Low", "Medium", "High", "Critical"}
    THEN [valid |-> FALSE, error |-> "Invalid severity"]
    ELSE IF row.status \notin {"Open", "In Progress", "Resolved", "Closed"}
    THEN [valid |-> FALSE, error |-> "Invalid status"]
    ELSE [valid |-> TRUE, error |-> "None"]

(* errors[:10] of parse_csv_file.                                          *)
ErrorCap == 10

(* The errors list parse_csv_file collects over df.iterrows(), from data  *)
(* row idx on: "Row {idx + 2}: {error}" with idx counted from 0.          *)
RECURSIVE row_errors(_, _)
row_errors(file, idx) ==
    IF idx > Len(file) THEN <<>>
    ELSE LET v == validate_cyber_incident_row(file[idx])
         IN  (IF v.valid THEN <<>> ELSE <<[row |-> idx + 1, error |-> v.error]>>)
             \o row_errors(file, idx + 1)

(* The error message as the list of its lines.                            *)
FirstErrors(errors) ==
    SubSeq(errors, 1, IF Len(errors) < ErrorCap THEN Len(errors) ELSE ErrorCap)

(* parse_csv_file that returns at the first invalid row.                  *)
parse_csv_file_first_error(file) ==
    IF file = <<>>
    THEN [success |-> FALSE, error |-> <<[row |-> 0, error |-> "CSV file is empty"]>>]
    ELSE IF row_errors(file, 1) # <<>>
    THEN [success |-> FALSE, error |-> <<Head(row_errors(file, 1))>>]
    ELSE [success |-> TRUE, error |-> <<>>]

(* parse_csv_file(uploaded_file, "cyber_incidents") for a file that is    *)
(* CSV text with a header line; file is the sequence of its data rows.    *)
parse_csv_file(file) ==
    IF file = <<>>
    THEN [success |-> FALSE, error |-> <<[row |-> 0, error |-> "CSV file is empty"]>>]
    ELSE IF row_errors(file, 1) # <<>>
    THEN [success |-> FALSE, error |-> FirstErrors(row_errors(file, 1))]
    ELSE [success |-> TRUE, error |-> <<>>]

(* prepare_cyber_incident_data for a file without the optional columns:   *)
(* created_at is datetime.now().                                           *)
prepare_cyber_incident_data(file) ==
    [i \in DOMAIN file |-> Incident(file[i].status, Ts(clock), NULL, NULL)]

(* The import loop: create_cyber_incident per record inside try/except;   *)
(* failed are the places of the records whose INSERT raised.              *)
RECURSIVE import_records(_, _, _, _, _)
import_records(tbl, lastid, records, k, failed) ==
    IF k > Len(records) THEN [table |-> tbl, lastid |-> lastid]
    ELSE IF k \in failed
    THEN import_records(tbl, lastid, records, k + 1, failed)
    ELSE import_records(insert_row(tbl, lastid, records[k]), lastid + 1, records, k + 1, failed)

(* Files of a few rows, every combination of cells.                       *)
ShortFiles == UNION {[1 .. n -> CsvRows] : n \in 0 .. MaxRecords}

(* Files of one row more than the cap: the rows are invalid in one of     *)
(* three ways, but for those at the places in V, which pass.              *)
LongFiles ==
    {[i \in 1 .. ErrorCap + 1 |->
        IF i \in V THEN CsvRow("Phish", "High", "Open")
        ELSE IF i % 3 = 0 THEN CsvRow("", "High", "Open")
        ELSE IF i % 3 = 1 THEN CsvRow("Phish", "Urgent", "Open")
        ELSE CsvRow("Phish", "High", "Done")] : V \in SUBSET {1, 2, ErrorCap + 1}}

(* A file is chosen in the uploader: the page parses it and shows the     *)
(* preview or the error.                                                   *)
UploadCsv ==
    /\ \E file \in ShortFiles \cup LongFiles :
         LET p == parse_csv_file(file)
         IN  last' = [Last("parse_csv_file", 0, file, "", PyBool(p.success), FALSE)
                        EXCEPT !.out = p.error]
    /\ users' = init_database(users, FirstSalts)
    /\ UNCHANGED <<session, procs, incidents, tickets, datasets, seq, clock>>

(* "Import All Records" is clicked: the page parses the file again and,   *)
(* when that succeeds, prepares the records and creates them one by one.  *)
(* id is the number of records imported.                                   *)
ImportCsv ==
    /\ \E file \in ShortFiles :
         /\ Created + Len(file) <= MaxRecords
         /\ \E failed \in SUBSET DOMAIN file :
              LET p == parse_csv_file(file)
                  r == import_records(incidents, seq.cyber_incidents,
                                      prepare_cyber_incident_data(file), 1, failed)
              IN  IF p.success
                  THEN /\ incidents' = r.table
                       /\ seq' = [seq EXCEPT !.cyber_incidents = r.lastid]
                       /\ last' = [Last("import_csv", r.lastid - seq.cyber_incidents, file, "",
                                         "True", failed # {})
                                      EXCEPT !.out = p.error]
                  ELSE /\ failed = {}
                       /\ UNCHANGED <<incidents, seq>>
                       /\ last' = [Last("import_csv", 0, file, "", "False", FALSE)
                                      EXCEPT !.out = p.error]
    /\ users' = init_database(users, FirstSalts)
    /\ UNCHANGED <<session, procs, tickets, datasets, clock>>

NextImport ==
    \/ UploadCsv
    \/ ImportCsv

SpecImport == Init /\ [][NextImport]_vars

----------------------------------------------------------------------------
(* Login, registration and dashboard dispatch of one browser session *)

(* Rows a database file can hold before the application first opens it:   *)
(* a default username whose password was changed, and an account whose    *)
(* role is none of the four.                                              *)
PreCyber == UserRow("cyber", hashpw("pw2", 1), "cybersecurity")

PreGuest == UserRow("guest", hashpw("guest", 1), "auditor")

PreexistingTables == SUBSET {PreCyber, PreGuest}

(* What is typed into the login form: every default account with its     *)
(* password, the pre-existing and the registered accounts with a right    *)
(* and a wrong password, a name nobody has, and an empty field.           *)
LoginInputs ==
    {<<u, default_users[u].password>> : u \in DefaultUsernames}
    \cup {<<"cyber", "pw2">>, <<"guest", "guest">>, <<"guest", "pw1">>,
          <<"alice", "pw1">>, <<"alice", "pw2">>, <<"nobody", "pw1">>, <<"", "pw1">>}

RegisterNames == {"alice", "admin", ""}

RegisterPasswords == {"pw1", "pw2"}

(* Two of the four roles the registration form offers.                    *)
RegisterRoles == {"admin", "data_science"}

(* The gensalt results a run of init_database can use: one per default    *)
(* username it has to insert.                                             *)
SeedSalts(tbl) == [{d \in DefaultUsernames : count_users(tbl, d) = 0} -> Salts]

InitAuth ==
    /\ users \in PreexistingTables
    /\ session = NoSession
    /\ incidents = EmptyTable
    /\ tickets = EmptyTable
    /\ datasets = EmptyTable
    /\ seq = [cyber_incidents |-> 0, it_tickets |-> 0, datasets_metadata |-> 0]
    /\ clock = 0
    /\ last = Last("none", 0, "", "", "None", FALSE)
    /\ procs = NoProcs

(* The session state one run of main() leaves for a logged-in user.       *)
Authenticated(role, username, selected) ==
    LET m == main_page(TRUE, role, selected)
    IN  [started |-> TRUE, authenticated |-> TRUE, user_role |-> role,
         username |-> username, nav |-> selected, page |-> m.page,
         reads |-> m.reads, msgs |-> {}]

(* The first run of main() in a browser session: session state is set up, *)
(* DatabaseManager() runs init_database, the login page is shown.         *)
FirstRun ==
    /\ ~session.started
    /\ \E salts \in SeedSalts(users) : users' = init_database(users, salts)
    /\ session' = Anonymous({})
    /\ last' = Last("init_database", 0, "", "", "None", FALSE)
    /\ UNCHANGED storeVars

(* The login form is submitted.  On success st.rerun() runs main() again, *)
(* which shows the main application with the first navigation entry.      *)
SubmitLogin ==
    /\ session.started /\ ~session.authenticated
    /\ \E in \in LoginInputs, raised \in BOOLEAN, salts \in SeedSalts(users) :
            LET username == in[1]
                password == in[2]
                tbl == init_database(users, salts)
                r == login_user(tbl, username, password, raised)
            IN  /\ users' = tbl
                /\ IF username = "" \/ password = ""
                   THEN /\ session' = Anonymous({"Please enter both username and password"})
                        /\ last' = Last("login_form", 0, username, password, "None", FALSE)
                   ELSE /\ session' =
                            IF r.user # NoRow
                            THEN Authenticated(r.user[1].role, username, "executive")
                            ELSE Anonymous(r.msgs \cup {"Invalid username or password"})
                        /\ last' = Last("login_user", 0, username, password,
                                         IF r.user # NoRow THEN r.user[1].role ELSE "None",
                                         raised)
    /\ UNCHANGED storeVars

(* The registration form is submitted.                                    *)
SubmitRegister ==
    /\ session.started /\ ~session.authenticated
    /\ \E new_username \in RegisterNames, new_password \in RegisterPasswords,
          confirmed \in BOOLEAN, role \in RegisterRoles, salt \in Salts, raised \in BOOLEAN,
          salts \in SeedSalts(users) :
            LET tbl == init_database(users, salts)
                r == register_user(tbl, new_username, new_password, role, salt, raised)
            IN  IF new_username = ""
                THEN /\ users' = tbl
                     /\ session' = Anonymous({"Please fill in all fields"})
                     /\ last' = Last("register_form", 0, new_username, new_password, "None", FALSE)
                ELSE IF ~confirmed
                THEN /\ users' = tbl
                     /\ session' = Anonymous({"Passwords do not match"})
                     /\ last' = Last("register_form", 0, new_username, new_password, "None", FALSE)
                ELSE /\ users' = r.table
                     /\ session' = Anonymous(r.msgs \cup
                            {IF r.ret = "True" THEN "Account created successfully"
                             ELSE "Registration failed"})
                     /\ last' = Last("register_user", 0, new_username, new_password, r.ret, raised)
    /\ UNCHANGED storeVars

(* A logout that forgets to reset user_role.                              *)
logout_keeps_role(s) == [Anonymous({}) EXCEPT !.user_role = s.user_role]

(* The logout button: the session fields are reset, st.rerun() shows the  *)
(* login page.                                                             *)
logout(s) == Anonymous({})

Logout ==
    /\ session.authenticated
    /\ \E salts \in SeedSalts(users) : users' = init_database(users, salts)
    /\ session' = logout(session)
    /\ last' = Last("logout", 0, session.username, "", "None", FALSE)
    /\ UNCHANGED storeVars

(* A dashboard is selected in the navigation radio; the value is taken    *)
(* from all five dashboards, offered to the role or not.                  *)
Navigate ==
    /\ session.authenticated
    /\ \E selected \in DashboardIds, salts \in SeedSalts(users) :
            /\ users' = init_database(users, salts)
            /\ session' = Authenticated(session.user_role, session.username, selected)
            /\ last' = Last("navigate", 0, selected, "", "None", FALSE)
    /\ UNCHANGED storeVars

NextAuth ==
    \/ FirstRun
    \/ SubmitLogin
    \/ SubmitRegister
    \/ Logout
    \/ Navigate

SpecAuth == InitAuth /\ [][NextAuth]_vars

----------------------------------------------------------------------------
(* One logged-in session using the widgets of the page it is shown *)

(* The roles of the accounts: the four known ones and one that is none of *)
(* them.                                                                   *)
SessionRoles == KnownRoles \cup {"auditor"}

InitDashboards ==
    /\ users = init_database({}, FirstSalts)
    /\ \E role \in SessionRoles : session = Authenticated(role, "user", "executive")
    /\ incidents = EmptyTable
    /\ tickets = EmptyTable
    /\ datasets = EmptyTable
    /\ seq = [cyber_incidents |-> 0, it_tickets |-> 0, datasets_metadata |-> 0]
    /\ clock = 0
    /\ last = Last("none", 0, "", "", "None", FALSE)
    /\ procs = NoProcs

(* The form, the sample data and the buttons of the incidents list are    *)
(* widgets of CyberSecurityDashboard.display().                            *)
OnCybersecurity ==
    /\ session.page = "cybersecurity"
    /\ \/ (Created < MaxRows /\ CreateIncident)
       \/ UpdateIncidentStatus
       \/ DeleteIncident

(* The widgets of DataScienceDashboard.display().                          *)
OnDataScience ==
    /\ session.page = "data_science"
    /\ \/ (Created < MaxRows /\ CreateDataset)
       \/ UpdateDatasetQuality
       \/ DeleteDataset

(* The widgets of ITOperationsDashboard.display().                         *)
OnItOperations ==
    /\ session.page = "it_operations"
    /\ \/ (Created < MaxRows /\ CreateTicket)
       \/ UpdateTicketStatus
       \/ DeleteTicket

(* The chat of AIAssistantDashboard.display().                             *)
OnAiAssistant ==
    /\ session.page = "ai_assistant"
    /\ AskAssistant

NextDashboards ==
    \/ Navigate
    \/ OnCybersecurity
    \/ OnDataScience
    \/ OnItOperations
    \/ OnAiAssistant

SpecDashboards == InitDashboards /\ [][NextDashboards]_vars

----------------------------------------------------------------------------
(* Two server processes on one database file *)

(* default_users of init_database in the order of the seeding loop.       *)
SeedOrder == <<"admin", "cyber", "data", "it">>

(* Another connection holds the write lock of the file: it has inserted   *)
(* rows and not committed them.                                            *)
LockedByOther(p) == \E q \in Procs \ {p} : procs[q].pending # {}

(* The users rows process p sees: the committed ones and its own.         *)
Visible(p) == users \cup procs[p].pending

NextSeed(at) == IF at < Len(SeedOrder) THEN Process("check", at + 1) ELSE Process("commit", 0)

(* init_database of process p: SELECT COUNT for the default user it has   *)
(* reached.                                                                *)
InitCheck(p) ==
    /\ procs[p].pc = "check"
    /\ procs' = [procs EXCEPT ![p] =
            IF count_users(Visible(p), SeedOrder[procs[p].at]) = 0
            THEN [@ EXCEPT !.pc = "insert"]
            ELSE [NextSeed(@.at) EXCEPT !.pending = procs[p].pending]]
    /\ last' = Last("init_database", p, SeedOrder[procs[p].at], "", "None", FALSE)
    /\ UNCHANGED <<users, session, incidents, tickets, datasets, seq, clock>>

(* init_database of process p: the INSERT of the default user.  While     *)
(* another connection holds the write lock the statement waits, and       *)
(* raises sqlite3.OperationalError (database is locked) when the timeout  *)
(* of the connection runs out; with the lock, the PRIMARY KEY raises      *)
(* sqlite3.IntegrityError for a username that was committed since the     *)
(* SELECT.  init_database has no except clause: the error ends it, before *)
(* conn.commit() and conn.close().                                         *)
InitInsert(p) ==
    /\ procs[p].pc = "insert"
    /\ LET u == SeedOrder[procs[p].at]
           row == UserRow(u, hashpw(default_users[u].password, p), default_users[u].role)
       IN  IF LockedByOther(p)
           THEN /\ procs' = [procs EXCEPT ![p] =
                        [Process("error", @.at) EXCEPT !.ret = "OperationalError"]]
                /\ last' = [Raised("init_database") EXCEPT !.id = p, !.arg = u]
           ELSE IF count_users(users, u) > 0
           THEN /\ procs' = [procs EXCEPT ![p] =
                        [Process("error", @.at) EXCEPT !.ret = "IntegrityError"]]
                /\ last' = [Raised("init_database") EXCEPT !.id = p, !.arg = u]
           ELSE /\ procs' = [procs EXCEPT ![p] =
                        [NextSeed(@.at) EXCEPT !.pending = procs[p].pending \cup {row}]]
                /\ last' = Last("init_database", p, u, "", "None", FALSE)
    /\ UNCHANGED <<users, session, incidents, tickets, datasets, seq, clock>>

(* init_database of process p: conn.commit() and conn.close().            *)
InitCommit(p) ==
    /\ procs[p].pc = "commit"
    /\ users' = users \cup procs[p].pending
    /\ procs' = [procs EXCEPT ![p] = Process("done", 0)]
    /\ last' = Last("init_database", p, "commit", "", "None", FALSE)
    /\ UNCHANGED <<session, incidents, tickets, datasets, seq, clock>>

(* Both processes construct DatabaseManager() on a file that holds none,  *)
(* some or all of the default users.                                       *)
InitSeeding ==
    /\ users \in SUBSET (init_database({}, FirstSalts) \cup {PreCyber, PreGuest})
    /\ UniqueUsernames(users)
    /\ session = NoSession
    /\ incidents = EmptyTable
    /\ tickets = EmptyTable
    /\ datasets = EmptyTable
    /\ seq = [cyber_incidents |-> 0, it_tickets |-> 0, datasets_metadata |-> 0]
    /\ clock = 0
    /\ last = Last("none", 0, "", "", "None", FALSE)
    /\ procs = [p \in Procs |-> Process("check", 1)]

NextSeeding ==
    \E p \in Procs :
        \/ InitCheck(p)
        \/ InitInsert(p)
        \/ InitCommit(p)

SpecSeeding == InitSeeding /\ [][NextSeeding]_vars

(* The username both sessions register, which no row has.                 *)
NewUsername == "alice"

(* register_user of process p: get_user and the test of its result.       *)
RegGetUser(p) ==
    /\ procs[p].pc = "get_user"
    /\ procs' = [procs EXCEPT ![p] =
            IF get_user(users, NewUsername) # NoRow
            THEN [@ EXCEPT !.pc = "done", !.ret = "False"]
            ELSE [@ EXCEPT !.pc = "create_user", !.at = 1]]
    /\ last' = Last("register_user", p, NewUsername, procs[p].pw,
                     IF get_user(users, NewUsername) # NoRow THEN "False" ELSE "None", FALSE)
    /\ UNCHANGED <<users, session, incidents, tickets, datasets, seq, clock>>

(* register_user of process p: hash_password and the INSERT of            *)
(* create_user.  An IntegrityError returns False from create_user; the    *)
(* OperationalError of a write lock that was not released in time leaves  *)
(* create_user and is caught by the except Exception of register_user,    *)
(* which returns False.                                                    *)
RegInsert(p) ==
    /\ procs[p].pc = "create_user"
    /\ LET c == create_user(users, NewUsername, hash_password(procs[p].pw, p), procs[p].role)
       IN  procs' = [procs EXCEPT ![p] =
                IF LockedByOther(p) \/ c.ret = "False"
                THEN [@ EXCEPT !.pc = "done", !.ret = "False"]
                ELSE [@ EXCEPT !.pc = "commit", !.pending = c.table \ users]]
    /\ last' = Last("register_user", p, NewUsername, procs[p].pw,
                     IF procs'[p].pc = "done" THEN "False" ELSE "None", FALSE)
    /\ UNCHANGED <<users, session, incidents, tickets, datasets, seq, clock>>

(* register_user of process p: conn.commit() of create_user, which        *)
(* returns True.                                                           *)
RegCommit(p) ==
    /\ procs[p].pc = "commit"
    /\ users' = users \cup procs[p].pending
    /\ procs' = [procs EXCEPT ![p] = [@ EXCEPT !.pc = "done", !.pending = {}, !.ret = "True"]]
    /\ last' = Last("register_user", p, NewUsername, procs[p].pw, "True", FALSE)
    /\ UNCHANGED <<session, incidents, tickets, datasets, seq, clock>>

(* Two sessions submit the registration form for the same new username,   *)
(* each with its password and role.                                        *)
InitRegistering ==
    /\ \E t \in PreexistingTables : users = init_database(t, FirstSalts)
    /\ session = NoSession
    /\ incidents = EmptyTable
    /\ tickets = EmptyTable
    /\ datasets = EmptyTable
    /\ seq = [cyber_incidents |-> 0, it_tickets |-> 0, datasets_metadata |-> 0]
    /\ clock = 0
    /\ last = Last("none", 0, "", "", "None", FALSE)
    /\ procs \in [Procs -> {[Process("get_user", 0) EXCEPT !.pw = w, !.role = r] :
                                w \in RegisterPasswords, r \in RegisterRoles}]

NextRegistering ==
    \E p \in Procs :
        \/ RegGetUser(p)
        \/ RegInsert(p)
        \/ RegCommit(p)

SpecRegistering == InitRegistering /\ [][NextRegistering]_vars

----------------------------------------------------------------------------
(* Properties of the record store *)

(* The step is a call of update_incident_status that updated incident i   *)
(* to Resolved.                                                           *)
ResolvedBy(i) ==
    /\ last'.op = "update_incident_status"
    /\ last'.id = i
    /\ last'.ret = "True"
    /\ ~last'.raised
    /\ i \in DOMAIN incidents
    /\ incidents'[i].status = "Resolved"

(* C1: once resolution_time_hours of an incident is non-null, no step     *)
(* (no status update in particular, a second transition to Resolved after *)
(* a reopening included) changes its value.                               *)
C1_ResolutionTimeSetOnce ==
    [][\A i \in DOMAIN incidents \cap DOMAIN incidents' :
            incidents[i].resolution_time_hours # NULL
            => incidents'[i].resolution_time_hours = incidents[i].resolution_time_hours]_vars

(* An incident created at hour 0 and resolved within that hour has just   *)
(* been resolved again an hour later: resolved_at moved on, the           *)
(* resolution time is still the first one.                                *)
C1_Witness ==
    /\ last.op = "update_incident_status"
    /\ last.ret = "True"
    /\ ~last.raised
    /\ last.id \in DOMAIN incidents
    /\ clock = 1
    /\ incidents[last.id].status = "Resolved"
    /\ incidents[last.id].created_at = Ts(0)
    /\ incidents[last.id].resolved_at = Ts(1)
    /\ incidents[last.id].resolution_time_hours = Real(0)

(* C9 as stated: an update that moves an incident with no resolution time *)
(* to Resolved leaves it with a resolution time, the elapsed hours from   *)
(* its created_at to the store clock.                                     *)
C9_Original ==
    [][\A i \in DOMAIN incidents :
            ResolvedBy(i) /\ incidents[i].resolution_time_hours = NULL
            => /\ incidents'[i].resolution_time_hours # NULL
               /\ incidents[i].created_at.k = "ts"
               /\ incidents'[i].resolution_time_hours
                    = Real(clock - incidents[i].created_at.v)]_vars

(* C9, amended: an update that moves an incident with no resolution time  *)
(* to Resolved sets it from the row's created_at and the store clock      *)
(* alone: to the elapsed hours between the two when created_at is a       *)
(* timestamp SQLite parses, and leaves it NULL when created_at is a text  *)
(* it does not parse.                                                     *)
C9_ResolutionTimeComputed ==
    [][\A i \in DOMAIN incidents :
            ResolvedBy(i) /\ incidents[i].resolution_time_hours = NULL
            => /\ incidents'[i].created_at = incidents[i].created_at
               /\ incidents'[i].resolution_time_hours =
                    IF incidents[i].created_at.k = "ts"
                    THEN Real(clock - incidents[i].created_at.v)
                    ELSE NULL]_vars

(* An incident created at hour 0 was resolved for the first time at hour  *)
(* 1 and carries one hour as its resolution time.                         *)
C9_Witness ==
    /\ last.op = "update_incident_status"
    /\ last.ret = "True"
    /\ ~last.raised
    /\ last.id \in DOMAIN incidents
    /\ clock = 1
    /\ incidents[last.id].status = "Resolved"
    /\ incidents[last.id].created_at = Ts(0)
    /\ incidents[last.id].resolved_at = Ts(1)
    /\ incidents[last.id].resolution_time_hours = Real(1)

(* C2 as stated: resolved_at of a ticket changes only in an update whose  *)
(* new status is Resolved or Closed, such an update sets it when it is    *)
(* unset, and once set it is never set again.                             *)
C2_ResolvedAtSetOnce ==
    [][\A t \in DOMAIN tickets \cap DOMAIN tickets' :
            /\ tickets'[t].resolved_at # tickets[t].resolved_at
                => /\ last'.op = "update_ticket_status"
                   /\ last'.id = t
                   /\ tickets'[t].status \in {"Resolved", "Closed"}
            /\ ( /\ last'.op = "update_ticket_status"
                 /\ last'.id = t
                 /\ last'.ret = "True"
                 /\ ~last'.raised
                 /\ tickets'[t].status \in {"Resolved", "Closed"}
                 /\ tickets[t].resolved_at = NULL )
                => tickets'[t].resolved_at = Ts(clock)
            /\ tickets[t].resolved_at # NULL
                => tickets'[t].resolved_at = tickets[t].resolved_at]_vars

(* The table an update or delete operation works on.                      *)
TableOf(op) ==
    CASE op \in {"update_incident_status", "delete_incident"} -> incidents
      [] op \in {"update_ticket_status", "delete_it_ticket"} -> tickets
      [] op \in {"update_dataset_quality", "delete_dataset"} -> datasets

UpdateAndDeleteOps ==
    {"update_incident_status", "update_ticket_status", "update_dataset_quality",
     "delete_incident", "delete_it_ticket", "delete_dataset"}

(* C10 as stated: an update or delete operation returns True iff a row    *)
(* with the id was in its table before the call, and when it returns      *)
(* False every table is as it was.                                        *)
C10_TrueIffRowExisted ==
    [][last'.op \in UpdateAndDeleteOps
        => /\ (last'.ret = "True") <=> (last'.id \in DOMAIN TableOf(last'.op))
           /\ last'.ret = "False"
                => /\ incidents' = incidents
                   /\ tickets' = tickets
                   /\ datasets' = datasets]_vars

(* The operations that write a record table. *)
WriteOps ==
    UpdateAndDeleteOps \cup {"create_cyber_incident", "create_dataset", "create_it_ticket"}

(* C11 as stated: a write operation whose statement hits a storage error  *)
(* fails to its caller (it does not return the False of an unknown id)    *)
(* and leaves the three tables as they were.                              *)
C11_StorageFaultsPropagate ==
    [][(last'.op \in WriteOps /\ last'.raised)
        => /\ last'.ret = "raise"
           /\ UNCHANGED <<incidents, tickets, datasets>>]_vars

(* C12 as stated: when an operation of DatabaseManager has returned or    *)
(* raised, the connection it opened is closed.                            *)
C12_ConnectionReleased == last.conn = "closed"

(* The (status, current_stage) pairs one call writes: a create or an      *)
(* update_ticket_status.                                                  *)
WrittenPairs ==
    {<<t.status, t.current_stage>> : t \in TicketInputs} \cup TicketUpdateInputs

CreateOps == {"create_cyber_incident", "create_dataset", "create_it_ticket"}

DeleteOps == {"delete_incident", "delete_dataset", "delete_it_ticket"}

(* The table an operation works on, before and after the step.            *)
RecordTable(op) ==
    CASE op \in {"create_cyber_incident", "delete_incident", "update_incident_status"}
            -> [old |-> incidents, new |-> incidents']
      [] op \in {"create_it_ticket", "delete_it_ticket", "update_ticket_status"}
            -> [old |-> tickets, new |-> tickets']
      [] op \in {"create_dataset", "delete_dataset", "update_dataset_quality"}
            -> [old |-> datasets, new |-> datasets']

IncidentOps == {"create_cyber_incident", "delete_incident", "update_incident_status"}

TicketOps == {"create_it_ticket", "delete_it_ticket", "update_ticket_status"}

DatasetOps == {"create_dataset", "delete_dataset", "update_dataset_quality"}

(* The users table and the two tables an operation does not work on are   *)
(* unchanged.                                                              *)
OtherTablesUnchanged(op) ==
    /\ users' = users
    /\ op \notin IncidentOps => incidents' = incidents
    /\ op \notin TicketOps => tickets' = tickets
    /\ op \notin DatasetOps => datasets' = datasets

(* The data dicts a create operation is called with.                      *)
InputsOf(op) ==
    CASE op = "create_cyber_incident" -> IncidentInputs
      [] op = "create_it_ticket" -> TicketInputs
      [] op = "create_dataset" -> DatasetInputs

(* C14: a create that returns an id has added one row, under that id, to  *)
(* its table: the id was the id of no row of the table, the row is one    *)
(* the caller passed, every row that was in the table is unchanged, and   *)
(* so are the other tables.                                               *)
C14_CreateInsertsOneRow ==
    [][(last'.op \in CreateOps /\ last'.ret = "id")
        => LET t == RecordTable(last'.op)
           IN  /\ last'.id \notin DOMAIN t.old
               /\ DOMAIN t.new = DOMAIN t.old \cup {last'.id}
               /\ \A i \in DOMAIN t.old : t.new[i] = t.old[i]
               /\ t.new[last'.id] \in InputsOf(last'.op)
               /\ OtherTablesUnchanged(last'.op)]_vars

(* A second dataset has just been created next to the first.              *)
C14_Witness ==
    /\ last.op = "create_dataset"
    /\ last.ret = "id"
    /\ last.id = 2
    /\ DOMAIN datasets = {1, 2}

(* C15 as stated: a delete of an id that is in its table returns True,    *)
(* removes that row and no other, and leaves the other tables unchanged;  *)
(* a delete that follows a successful delete of the same id returns       *)
(* False.                                                                  *)
C15_DeleteRemovesOneRow ==
    [][last'.op \in DeleteOps
        => LET t == RecordTable(last'.op)
           IN  /\ last'.id \in DOMAIN t.old
                    => /\ last'.ret = "True"
                       /\ DOMAIN t.new = DOMAIN t.old \ {last'.id}
                       /\ \A i \in DOMAIN t.new : t.new[i] = t.old[i]
                       /\ OtherTablesUnchanged(last'.op)
               /\ (last.op = last'.op /\ last.id = last'.id /\ last.ret = "True")
                    => last'.ret = "False"]_vars

GetAllOps == {"get_cyber_incidents", "get_all_datasets", "get_all_it_tickets"}

(* The table a get_all operation reads.                                   *)
ReadTable(op) ==
    CASE op = "get_cyber_incidents" -> incidents
      [] op = "get_all_datasets" -> datasets
      [] op = "get_all_it_tickets" -> tickets

CreatedAtKept(old, new) ==
    /\ \A i \in DOMAIN new : new[i].created_at # NULL
    /\ \A i \in DOMAIN old \cap DOMAIN new : new[i].created_at = old[i].created_at

(* C17 as stated: every incident, dataset and ticket row has a created_at *)
(* value from its creation on, and no operation changes the created_at of *)
(* a row.                                                                  *)
C17_CreatedAtSetAndImmutable ==
    [][/\ CreatedAtKept(incidents, incidents')
       /\ CreatedAtKept(tickets, tickets')
       /\ CreatedAtKept(datasets, datasets')]_vars

(* C18: in every state the quality_score of every dataset row is NULL or *)
(* a number from 0 to 10: the add form and the update slider pass values  *)
(* of QUALITY_SCORE_RANGE, the sample data is in range, and a CSV row     *)
(* reaches create_dataset only if validate_dataset_row accepted it.       *)
C18_QualityInRange ==
    \A i \in DOMAIN datasets :
        \/ datasets[i].quality_score = NULL
        \/ /\ datasets[i].quality_score.k = "real"
           /\ datasets[i].quality_score.v >= 0
           /\ datasets[i].quality_score.v <= 10

(* A CSV row with the lowest valid score was imported (the rows with the  *)
(* scores -1 and 11 of CsvQualityCells were not), and another dataset was *)
(* given the highest score by update_dataset_quality.                     *)
C18_Witness ==
    /\ \E i \in DOMAIN datasets : datasets[i].quality_score = Real(0)
    /\ last.op = "update_dataset_quality"
    /\ last.ret = "True"
    /\ last.id \in DOMAIN datasets
    /\ datasets[last.id].quality_score = Real(10)

(* C19 as stated: update_dataset_quality on a dataset that exists returns *)
(* True, sets its quality_score to the score passed and its last_accessed *)
(* to the store's clock, and changes no other field of the row, no other  *)
(* row and no other table.                                                *)
C19_UpdateQualityFrame ==
    [][(last'.op = "update_dataset_quality" /\ last'.id \in DOMAIN datasets)
        => /\ last'.ret = "True"
           /\ DOMAIN datasets' = DOMAIN datasets
           /\ datasets'[last'.id].quality_score \in QualityInputs
           /\ datasets'[last'.id].last_accessed = Ts(clock)
           /\ datasets'[last'.id].created_at = datasets[last'.id].created_at
           /\ \A i \in DOMAIN datasets \ {last'.id} : datasets'[i] = datasets[i]
           /\ OtherTablesUnchanged(last'.op)]_vars

(* C20: a get_statistics whose SELECTs do not raise returns the dict; in  *)
(* every state its counts are the numbers of rows (of rows with status    *)
(* 'Open') of the tables and its average is that of the scores present;   *)
(* with no incident, dataset and ticket row all five counts are 0 and     *)
(* avg_quality is the number 0, not NULL.                                 *)
C20_Statistics ==
    [][last'.op = "get_statistics"
        => /\ ~last'.raised => last'.ret = "dict"
           /\ last'.ret = "dict"
                => LET stats == last'.out[1]
                       scored == {i \in DOMAIN datasets : datasets[i].quality_score # NULL}
                   IN  /\ stats.user_count = Cardinality(users)
                       /\ stats.total_incidents = Cardinality(DOMAIN incidents)
                       /\ stats.open_incidents
                            = Cardinality({i \in DOMAIN incidents : incidents[i].status = "Open"})
                       /\ stats.total_datasets = Cardinality(DOMAIN datasets)
                       /\ stats.total_tickets = Cardinality(DOMAIN tickets)
                       /\ stats.open_tickets
                            = Cardinality({i \in DOMAIN tickets : tickets[i].status = "Open"})
                       /\ stats.avg_quality # NULL
                       /\ scored = {} => stats.avg_quality = Real(0)
                       /\ scored # {}
                            => /\ stats.avg_quality.n = Cardinality(scored)
                               /\ stats.avg_quality.sum = sum_quality(datasets, scored)
                       /\ (DOMAIN incidents = {} /\ DOMAIN datasets = {} /\ DOMAIN tickets = {})
                            => /\ stats.total_incidents = 0
                               /\ stats.open_incidents = 0
                               /\ stats.total_datasets = 0
                               /\ stats.total_tickets = 0
                               /\ stats.open_tickets = 0
                               /\ stats.avg_quality = Real(0)
           /\ UNCHANGED <<users, incidents, tickets, datasets>>]_vars

(* get_statistics has just returned on the store as init_database made    *)
(* it: four users, no record.                                             *)
C20_Witness ==
    /\ last.op = "get_statistics"
    /\ last.ret = "dict"
    /\ Created = 0
    /\ last.out[1].user_count = 4
    /\ last.out[1].total_incidents = 0
    /\ last.out[1].avg_quality = Real(0)

(* C28 as stated: in every state every incident whose status is Resolved  *)
(* has a resolved_at and a resolution_time_hours that are not NULL.       *)
C28_ResolvedHasResolution ==
    \A i \in DOMAIN incidents :
        incidents[i].status = "Resolved"
            => /\ incidents[i].resolved_at # NULL
               /\ incidents[i].resolution_time_hours # NULL

(* C30 as stated: whenever an update to Resolved computes the resolution  *)
(* time of an incident, the value is not negative, whatever created_at    *)
(* the incident was created with and whatever the store clock shows.      *)
C30_ResolutionTimeNonNegative ==
    [][\A i \in DOMAIN incidents :
            ( /\ ResolvedBy(i)
              /\ incidents[i].resolution_time_hours = NULL
              /\ incidents'[i].resolution_time_hours # NULL )
            => incidents'[i].resolution_time_hours.v >= 0]_vars

----------------------------------------------------------------------------
(* Properties of the credential functions *)

(* C21 as stated: verify_password(P, h) is True for every h that          *)
(* hash_password returned for P and False for every h it returned for a   *)
(* password different from P, and no two calls of hash_password returned  *)
(* the same string.                                                        *)
C21_HashAndVerify ==
    [][/\ (last'.op = "verify_password" /\ last'.id # 0)
            => (last'.ret = "True") <=> (last'.pw = last'.out[last'.id].password)
       /\ \A i, j \in DOMAIN last'.out :
            i # j => last'.out[i].hash # last'.out[j].hash]_vars

(* C22: whatever password is tried, verify_password on a stored hash that *)
(* is malformed returns False, and no call of verify_password raises;     *)
(* login_user on a user whose password_hash is malformed returns None.    *)
C22_MalformedHash ==
    [][/\ last'.op = "verify_password"
            => /\ last'.ret \in {"True", "False"}
               /\ last'.id = 0 => last'.ret = "False"
       /\ (last'.op = "login_user" /\ last'.id = 0) => last'.ret = "None"]_vars

(* verify_password has just returned False for the malformed hash.        *)
C22_Witness ==
    /\ last.op = "verify_password"
    /\ last.id = 0
    /\ checkpw(last.pw, MalformedHash) = "ValueError"
    /\ last.ret = "False"

----------------------------------------------------------------------------
(* Properties of the AI assistant *)

(* C24: answering a chat message or quick question calls only             *)
(* get_cyber_incidents, get_all_datasets and get_all_it_tickets, and      *)
(* leaves the users table and the three record tables as they were.       *)
C24_AssistantNeverWrites ==
    [][last'.op = "ai_response"
        => /\ \A k \in DOMAIN last'.out :
                last'.out[k].method \in
                    {"get_cyber_incidents", "get_all_datasets", "get_all_it_tickets"}
           /\ users' = users
           /\ incidents' = incidents
           /\ tickets' = tickets
           /\ datasets' = datasets]_vars

(* An analyse question about security was answered with two reads of the  *)
(* incidents, and incident 1 is in the table.                              *)
C24_Witness ==
    /\ last.op = "ai_response"
    /\ Len(last.out) = 2
    /\ last.out[1].method = "get_cyber_incidents"
    /\ 1 \in DOMAIN incidents

----------------------------------------------------------------------------
(* Properties of the CSV import *)

(* The row has the required fields and its severity and status are of the *)
(* enumerations.                                                           *)
RowPasses(row) ==
    /\ row.title # "" /\ row.threat_type # "" /\ row.severity # "" /\ row.status # ""
    /\ row.severity \in {"Low", "Medium", "High", "Critical"}
    /\ row.status \in {"Open", "In Progress", "Resolved", "Closed"}

InvalidRows(file) == {i \in DOMAIN file : ~RowPasses(file[i])}

(* The messages name, in row order, the first ErrorCap invalid rows of    *)
(* the file, one message each.                                             *)
OneMessagePerInvalidRow(file, msgs) ==
    /\ Len(msgs) = IF Cardinality(InvalidRows(file)) < ErrorCap
                   THEN Cardinality(InvalidRows(file)) ELSE ErrorCap
    /\ \A k \in DOMAIN msgs :
            /\ msgs[k].row - 1 \in InvalidRows(file)
            /\ Cardinality({i \in InvalidRows(file) : i < msgs[k].row - 1}) = k - 1

(* The import created records only for a file all of whose rows pass.     *)
CreatesOnlyForValidFiles ==
    (last'.op = "import_csv" /\ incidents' # incidents)
        => \A i \in DOMAIN last'.arg : RowPasses(last'.arg[i])

----------------------------------------------------------------------------
(* Properties of the dashboards of a session *)

(* C29: a create, update or delete of incidents is a step of a session    *)
(* shown the cybersecurity dashboard, of datasets the data science        *)
(* dashboard, of tickets the IT operations dashboard; and no step of a    *)
(* session whose role is not permitted a dashboard changes the rows of    *)
(* that dashboard's table.                                                 *)
C29_MutationsConfinedByRole ==
    [][/\ last'.op \in IncidentOps => session.page = "cybersecurity"
       /\ last'.op \in DatasetOps => session.page = "data_science"
       /\ last'.op \in TicketOps => session.page = "it_operations"
       /\ "cybersecurity" \notin DASHBOARD_PERMISSIONS(session.user_role)
            => incidents' = incidents
       /\ "data_science" \notin DASHBOARD_PERMISSIONS(session.user_role)
            => datasets' = datasets
       /\ "it_operations" \notin DASHBOARD_PERMISSIONS(session.user_role)
            => tickets' = tickets]_vars

(* An it_operations session that created a ticket has selected the        *)
(* cybersecurity dashboard and is shown the permission error.             *)
C29_Witness ==
    /\ session.user_role = "it_operations"
    /\ session.nav = "cybersecurity"
    /\ session.page = "denied"
    /\ 1 \in DOMAIN tickets
    /\ incidents = EmptyTable

----------------------------------------------------------------------------
(* Properties of two processes on one database file *)

(* C26 as stated: when two processes have run init_database at the same   *)
(* time, in whatever interleaving of their checks and inserts, the users  *)
(* table holds exactly one row for each default username and neither run  *)
(* ended with an error.                                                    *)
C26_ConcurrentSeeding ==
    (\A p \in Procs : procs[p].pc \in {"done", "error"})
        => /\ \A d \in DefaultUsernames : count_users(users, d) = 1
           /\ \A p \in Procs : procs[p].pc = "done"

(* C27: when two sessions have registered the same new username at the   *)
(* same time, in whatever interleaving, exactly one call returned True,   *)
(* the other returned False (none raised), and the one row of the         *)
(* username holds the password hash and the role of the call that         *)
(* returned True.                                                          *)
C27_ConcurrentRegistration ==
    (\A p \in Procs : procs[p].pc = "done")
        => /\ \A p \in Procs : procs[p].ret \in {"True", "False"}
           /\ Cardinality({p \in Procs : procs[p].ret = "True"}) = 1
           /\ count_users(users, NewUsername) = 1
           /\ \A p \in Procs :
                procs[p].ret = "True"
                => UserRow(NewUsername, hash_password(procs[p].pw, p), procs[p].role) \in users

(* Both calls found no row for the username and went on to create_user,   *)
(* with different passwords; one returned True and the other False.       *)
C27_Witness ==
    /\ \A p \in Procs : procs[p].pc = "done" /\ procs[p].at = 1
    /\ procs[1].pw # procs[2].pw
    /\ procs[1].ret = "False"
    /\ procs[2].ret = "True"

----------------------------------------------------------------------------
(* Properties of login, registration and dispatch *)

(* C3 as stated: a session whose role is none of the four known roles has *)
(* no permitted dashboard and is shown none, the executive dashboard and  *)
(* the AI assistant included.                                              *)
C3_UnknownRoleSeesNothing ==
    (session.authenticated /\ session.user_role \notin KnownRoles)
        => /\ DASHBOARD_PERMISSIONS(session.user_role) = {}
           /\ session.page \notin DashboardIds

(* C4: for a session of one of the four roles, whatever dashboard is      *)
(* selected (offered in the navigation or not), the page shown is a       *)
(* dashboard only if it is the selected one and DASHBOARD_PERMISSIONS     *)
(* lists it for the role; and for each of the four roles the checks of    *)
(* the dispatch let through exactly the dashboards the table lists.       *)
C4_RenderedOnlyIfPermitted ==
    /\ (session.authenticated /\ session.user_role \in KnownRoles
            /\ session.page \in DashboardIds)
        => /\ session.page = session.nav
           /\ session.page \in DASHBOARD_PERMISSIONS(session.user_role)
    /\ \A r \in KnownRoles, d \in DashboardIds :
            (dispatch(r, d) = d) <=> (d \in DASHBOARD_PERMISSIONS(r))

(* An it_operations session selected the cybersecurity dashboard, which   *)
(* its navigation does not offer, and was shown the permission error.     *)
C4_Witness ==
    /\ session.authenticated
    /\ session.user_role = "it_operations"
    /\ session.nav = "cybersecurity"
    /\ session.nav \notin dashboard_options(session.user_role)
    /\ session.page = "denied"

AllPasswords == {"admin123", "cyber123", "data123", "it123", "pw1", "pw2", "guest"}

(* C5: usernames are unique in the users table in every state; a          *)
(* registration for a username that is taken returns False and leaves the *)
(* table as it was, so every password logs that user in exactly as        *)
(* before: the original one still does, and the one just tried does not   *)
(* unless it did before.                                                   *)
C5_RegistrationUniqueness ==
    [][/\ UniqueUsernames(users)
       /\ UniqueUsernames(users')
       /\ ( /\ last'.op = "register_user"
            /\ session.started
            /\ \E r \in users : r.username = last'.arg )
           => /\ last'.ret = "False"
              /\ users' = users
              /\ \A p \in AllPasswords :
                    login_user(users', last'.arg, p, FALSE)
                        = login_user(users, last'.arg, p, FALSE)]_vars

(* alice is registered and a registration for alice with another password *)
(* has just been refused: the stored hash does not verify that password.  *)
C5_Witness ==
    /\ last.op = "register_user"
    /\ last.arg = "alice"
    /\ last.ret = "False"
    /\ ~last.raised
    /\ \E r \in users :
            /\ r.username = "alice"
            /\ ~verify_password(last.pw, r.password_hash)
            /\ \E p \in AllPasswords : verify_password(p, r.password_hash)

(* C6: whatever users table a run of init_database starts from, it ends   *)
(* with exactly one row for each of the four default usernames, every row *)
(* that was there is still there with its password_hash and role, and     *)
(* the rows it adds are the default accounts of the usernames that were   *)
(* missing: once the table is seeded a further run adds nothing.          *)
C6_IdempotentSeeding ==
    [][/\ \A d \in DefaultUsernames : count_users(users', d) = 1
       /\ users \subseteq users'
       /\ \A r \in users' \ users :
            r.username \in DefaultUsernames
            => /\ count_users(users, r.username) = 0
               /\ r.role = default_users[r.username].role
               /\ verify_password(default_users[r.username].password, r.password_hash)
       /\ last'.op # "register_user"
            => \A r \in users' \ users : r.username \in DefaultUsernames
       /\ (session.started /\ last'.op # "register_user") => users' = users]_vars

(* init_database has just run on a table that held one of the default     *)
(* usernames, with a changed password, and an account of another name:    *)
(* both rows are as they were and the three missing defaults are there.   *)
C6_Witness ==
    /\ last.op = "init_database"
    /\ session.started
    /\ PreCyber \in users
    /\ PreGuest \in users
    /\ Cardinality(users) = 5
    /\ \A d \in DefaultUsernames : count_users(users, d) = 1

(* C23: no step deletes a user row or changes its role or password_hash:  *)
(* a first run, a login, a registration, a logout or a navigation, each   *)
(* with its init_database, leaves every username that had a row with      *)
(* exactly the row it had.                                                 *)
C23_UserRowsKept ==
    [][\A r \in users :
            {q \in users' : q.username = r.username} = {r}]_vars

(* alice registered, logged in and logged out again; her row and the two  *)
(* rows the file held before the application opened it are still there.   *)
C23_Witness ==
    /\ last.op = "logout"
    /\ last.arg = "alice"
    /\ PreCyber \in users
    /\ PreGuest \in users
    /\ \E r \in users : r.username = "alice" /\ r.role \in RegisterRoles

(* The user row of the name typed into the login form verifies the        *)
(* password typed.                                                        *)
CredentialsMatch(tbl, username, password) ==
    \E r \in tbl : r.username = username /\ verify_password(password, r.password_hash)

(* C7 as stated: login_user yields the stored role iff the user exists    *)
(* and the password verifies, None otherwise, and a failed login shows    *)
(* the one message "Invalid username or password".                        *)
C7_Original ==
    [][last'.op = "login_user"
        => /\ (last'.ret # "None") <=> CredentialsMatch(users', last'.arg, last'.pw)
           /\ last'.ret = "None"
                => session' = Anonymous({"Invalid username or password"})]_vars

(* C7, amended: login_user yields the stored role iff the user exists,    *)
(* the password verifies and the lookup raises no storage error, None     *)
(* otherwise; after a failed login the session, the messages shown        *)
(* included, depends only on whether the lookup raised, so an unknown     *)
(* username and a known one with a wrong password look the same.          *)
C7_LoginResult ==
    [][last'.op = "login_user"
        => /\ (last'.ret # "None")
                <=> (~last'.raised /\ CredentialsMatch(users', last'.arg, last'.pw))
           /\ last'.ret # "None"
                => /\ \E r \in users' : r.username = last'.arg /\ r.role = last'.ret
                   /\ session'.authenticated
                   /\ session'.user_role = last'.ret
           /\ last'.ret = "None"
                => session' = Anonymous((IF last'.raised THEN {"Login error"} ELSE {})
                                        \cup {"Invalid username or password"})]_vars

(* A login for a username that exists has just failed on the password,    *)
(* with no storage error.                                                 *)
C7_Witness ==
    /\ last.op = "login_user"
    /\ last.ret = "None"
    /\ ~last.raised
    /\ \E r \in users : r.username = last.arg
    /\ ~CredentialsMatch(users, last.arg, last.pw)
    /\ session = Anonymous({"Invalid username or password"})

(* A session state is Anonymous (no role, no username, the login page,    *)
(* no record table read) or Authenticated with the role stored for its    *)
(* username.                                                               *)
SessionOk(s, tbl) ==
    IF s.authenticated
    THEN /\ s.started
         /\ \E r \in tbl : r.username = s.username /\ r.role = s.user_role
    ELSE /\ s.user_role = "None"
         /\ s.username = "None"
         /\ s.page \in {"login", "nothing"}
         /\ s.reads \subseteq {"users"}

(* C8: the session is always Anonymous or Authenticated(role); it becomes *)
(* Authenticated only by a successful login_user, with the role stored    *)
(* for that user; it becomes Anonymous again only by logout; while        *)
(* Authenticated its user and role do not change; a failed login and a    *)
(* registration leave it Anonymous; no dashboard is shown and no record   *)
(* table is read while it is Anonymous.                                   *)
C8_SessionStateMachine ==
    [][/\ SessionOk(session, users)
       /\ SessionOk(session', users')
       /\ (~session.authenticated /\ session'.authenticated)
            => /\ last'.op = "login_user"
               /\ last'.ret # "None"
               /\ last'.ret = session'.user_role
               /\ last'.arg = session'.username
       /\ (session.authenticated /\ ~session'.authenticated) => last'.op = "logout"
       /\ (session.authenticated /\ session'.authenticated)
            => /\ session'.user_role = session.user_role
               /\ session'.username = session.username
       /\ ( \/ last'.op \in {"register_user", "register_form", "login_form"}
            \/ (last'.op = "login_user" /\ last'.ret = "None") )
            => ~session'.authenticated]_vars

(* A user who was logged in has just logged out.                          *)
C8_Witness ==
    /\ last.op = "logout"
    /\ last.arg \in DefaultUsernames
    /\ session = Anonymous({})

====
